---------------------------- MODULE Spec2Model ----------------------------
(***************************************************************************)
(* A model of pysvg (src/pySVG.py, src/filetext.py, src/svgelements.py):   *)
(* the table reader, the axis tick loops of the four axis charts, the bar  *)
(* maximum, the point sort of the line plot and the run of getprocessargs. *)
(* The program is Python 2 (print statements): "/" on two ints is floor    *)
(* division, a negative list index counts from the end of the list and an  *)
(* index outside the list raises IndexError.                               *)
(***************************************************************************)
EXTENDS Integers, Sequences, FiniteSets, TLC

VARIABLES
    pc,         \* position of the run / of the operation under study
    opts,       \* the options main() hands to getprocessargs, already int()
    lval,       \* the column-major table readinputfile returned
    raised,     \* the exception that ended the operation, "" if none
    input,      \* the point list handed to the sort, kept for reference
    lpoints,    \* the point list the sort reorders in place
    stack,      \* call stack of ordenatewithquicksort, innermost frame last
    fileok,     \* open(path, "r") succeeds
    cad,        \* the lines of the input file, each split() into tokens
    status,     \* "running", or how the process ended
    back,       \* the returned table transposed once more
    heightmaxbar,   \* self.heightmaxbar of the bar charts
    maxaxis,    \* <<xmaxaxis, ymaxaxis>> of the scatter and line charts
    inc,        \* the running tick value: inc (bars), self.yinc (scatter)
    counter,    \* counter (bars), cont (scatter) of the tick loop
    yticks,     \* the tick labels emitted on the vertical axis, in order
    xticks,     \* the tick labels emitted on the horizontal axis, in order
    bars,       \* the Column elements emitted, in order
    args,       \* the input files named on the command line
    written,    \* the paths writesvgfile was called with, in order
    average,    \* what getaverage returned for the X column
    reglist,    \* what getregressionline returned
    drawn,      \* the points of the scatter chart as drawn, in order
    slices,     \* the sectors of the pie chart as drawn, in order
    initianradian   \* self.initianradian of the pie chart

sortVars == <<input, lpoints, stack>>
readVars == <<fileok, cad, status, back>>
axisVars == <<heightmaxbar, maxaxis, inc, counter, yticks, xticks, bars>>
runVars == <<args, written>>
chartVars == <<average, reglist, drawn, slices, initianradian>>
vars == <<pc, opts, lval, raised, sortVars, readVars, axisVars, runVars,
          chartVars>>

(* The variables the sort leaves alone.                                    *)
NotSort == <<opts, lval, input, readVars, axisVars, runVars, chartVars>>

(* The variables the reader leaves alone.                                  *)
NotRead == <<opts, sortVars, axisVars, runVars, chartVars>>

(* The variables the axis loops leave alone.                               *)
NotAxis == <<opts, lval, sortVars, fileok, cad, back, runVars, chartVars>>

---------------------------------------------------------------------------
(* Bounds of the model.                                                    *)
MaxLen == 4         \* longest point list handed to the sort alone
MaxRows == 3        \* most rows of an input table
MaxCoord == 2       \* largest coordinate value
NegCoord == 1       \* coordinates start at -NegCoord
MaxTok == 3         \* most tokens on a line of the input file
MaxBars == 2        \* most rows of a table handed to an axis chart
MaxTicks == 20      \* iterations after which a tick loop is cut off
MaxValue == 3       \* largest value of a sector of a pie chart

Coords == (0 - NegCoord)..MaxCoord

---------------------------------------------------------------------------
(* The defaults main() gives the options (src/pySVG.py lines 351-366).     *)
Defaults ==
    [prefab |-> "", xcolumn |-> 1, ycolumn |-> 2, xcolumn2 |-> 3,
     ycolumn2 |-> 3, yrange |-> 0, yinc |-> 10, ygrid |-> FALSE,
     corr |-> FALSE, xorigin |-> 100, yorigin |-> 100, colorfld |-> 3,
     values |-> 2, labels |-> 1, legend |-> FALSE]

(* A cell of the table is a string token: int(token) gives its value or    *)
(* raises ValueError.                                                      *)
Num(n) == [numeric |-> TRUE, value |-> n]

Word == [numeric |-> FALSE, value |-> 0]

IsInt(tok) == tok.numeric

IntOf(tok) == tok.value

---------------------------------------------------------------------------
(* Python list indexing: lst[k] with k counted from 0, negative k from the *)
(* end; anything else raises IndexError.                                   *)
PyHas(lst, k) == k >= 0 - Len(lst) /\ k < Len(lst)

PyPos(lst, k) == IF k >= 0 THEN k + 1 ELSE Len(lst) + k + 1

PyGet(lst, k) == lst[PyPos(lst, k)]

PySet(lst, k, v) == [lst EXCEPT ![PyPos(lst, k)] = v]

(* Python 2 "/" on two ints: floor division.                               *)
FloorDiv(a, b) == a \div b

(* float(a) / float(b) for integers a and b # 0, kept as the exact         *)
(* fraction with a positive denominator.                                   *)
FloatDiv(a, b) ==
    IF b > 0 THEN [num |-> a, den |-> b] ELSE [num |-> 0 - a, den |-> 0 - b]

(* float(k)                                                                *)
Float(k) == [num |-> k, den |-> 1]

(* r * k and r + k for a float r and an integer k                          *)
FloatMulInt(r, k) == [num |-> r.num * k, den |-> r.den]
FloatAddInt(r, k) == [num |-> r.num + k * r.den, den |-> r.den]

(* a - b, a + b, a == b, a < b for floats                                  *)
FloatSub(a, b) == [num |-> a.num * b.den - b.num * a.den,
                   den |-> a.den * b.den]
FloatAdd(a, b) ==
    IF a.den = b.den THEN [num |-> a.num + b.num, den |-> a.den]
    ELSE [num |-> a.num * b.den + b.num * a.den, den |-> a.den * b.den]
FloatEq(a, b) == a.num * b.den = b.num * a.den
FloatLess(a, b) == a.num * b.den < b.num * a.den

(* r / 2 for a float r                                                     *)
FloatHalf(r) == [num |-> r.num, den |-> 2 * r.den]

---------------------------------------------------------------------------
(* filetext.readinputfile.                                                 *)

(* The transposition loop (lines 65-70) reads cad[poscad][poscad1] for     *)
(* every poscad1 below len(cad1), cad1 being the last line read: a line    *)
(* with fewer tokens than the last one raises IndexError.                  *)
TransposeRaises(rows) ==
    \E r \in 1..Len(rows) : Len(rows[r]) < Len(rows[Len(rows)])

(* finalcad: one list per token position of the last line.                 *)
Transpose(rows) ==
    [poscad1 \in 1..Len(rows[Len(rows)]) |->
        [poscad \in 1..Len(rows) |-> rows[poscad][poscad1]]]

(* The state outside a run of the reader.                                  *)
IdleRead ==
    /\ fileok = TRUE
    /\ cad = <<>>
    /\ status = "running"
    /\ back = <<>>

(* os.path.split(inputargs) of an input file in the working directory.     *)
DataFile == [dirname |-> "", filename |-> "data.txt"]

(* One input file named, nothing written.                                  *)
IdleRun ==
    /\ args = <<DataFile>>
    /\ written = <<>>

(* The state before any chart element is computed.                         *)
IdleChart ==
    /\ average = 0
    /\ reglist = <<>>
    /\ drawn = <<>>
    /\ slices = <<>>
    /\ initianradian = Float(0)

(* The state before any axis is drawn.                                     *)
IdleAxis ==
    /\ heightmaxbar = 0
    /\ maxaxis = <<0, 0>>
    /\ inc = 0
    /\ counter = 0
    /\ yticks = <<>>
    /\ xticks = <<>>
    /\ bars = <<>>

(* readinputfile(path): IOError and IndexError print a message and         *)
(* sys.exit(2); with no line read cad1 is unbound and the                  *)
(* UnboundLocalError is caught nowhere.                                    *)
ReadInputFile ==
    /\ pc = "read"
    /\ args # <<>>
    /\ pc' = "read_done"
    /\ IF ~fileok
       THEN /\ raised' = "IOError"
            /\ status' = "exit2"
            /\ UNCHANGED lval
       ELSE IF cad = <<>>
       THEN /\ raised' = "UnboundLocalError"
            /\ status' = "traceback"
            /\ UNCHANGED lval
       ELSE IF TransposeRaises(cad)
       THEN /\ raised' = "IndexError"
            /\ status' = "exit2"
            /\ UNCHANGED lval
       ELSE /\ lval' = Transpose(cad)
            /\ UNCHANGED <<raised, status>>
    /\ UNCHANGED <<fileok, cad, back, NotRead>>

(* The transposition loop applied to the returned table.                   *)
TransposeBack ==
    /\ pc = "read_done"
    /\ status = "running"
    /\ pc' = "transposed"
    /\ back' = IF lval = <<>> THEN [raised |-> "UnboundLocalError"]
               ELSE IF TransposeRaises(lval) THEN [raised |-> "IndexError"]
               ELSE [raised |-> "", table |-> Transpose(lval)]
    /\ UNCHANGED <<lval, raised, fileok, cad, status, NotRead>>

(* The token at position i of line r: every token of the file different,   *)
(* or every token the same word.                                           *)
TokenAt(kind, r, i) == IF kind = "tags" THEN Num(10 * r + i) ELSE Word

(* Files of at most MaxRows lines of at most MaxTok tokens each.           *)
Files ==
    UNION {{[r \in 1..n |-> [i \in 1..len[r] |-> TokenAt(kind, r, i)]] :
              len \in [1..n -> 0..MaxTok], kind \in {"tags", "word"}} :
           n \in 0..MaxRows}

InitRead ==
    /\ pc = "read"
    /\ opts = Defaults
    /\ lval = <<>>
    /\ raised = ""
    /\ input = <<>>
    /\ lpoints = <<>>
    /\ stack = <<>>
    /\ fileok \in BOOLEAN
    /\ cad \in Files
    /\ status = "running"
    /\ back = <<>>
    /\ IdleAxis
    /\ IdleChart
    /\ IdleRun

NextRead == ReadInputFile \/ TransposeBack

SpecRead == InitRead /\ [][NextRead]_vars

(* Two lines of the file have different token counts.                      *)
Ragged(rows) == \E r1, r2 \in 1..Len(rows) : Len(rows[r1]) # Len(rows[r2])

(* token i of line r is in the returned table, at column i, row r          *)
Kept(rows, tbl) ==
    \A r \in 1..Len(rows) : \A i \in 1..Len(rows[r]) :
        i <= Len(tbl) /\ r <= Len(tbl[i]) /\ tbl[i][r] = rows[r][i]

(* C4: a readable file with two lines of different token counts ends the   *)
(* run with exit status 2 and no table, wherever the differing line is and *)
(* whether it is longer or shorter; a table that is returned holds every   *)
(* token of the file.                                                      *)
C4_RaggedIsFatal ==
    /\ (pc = "read_done" /\ fileok /\ Ragged(cad)) =>
           (status = "exit2" /\ lval = <<>>)
    /\ (pc = "read_done" /\ status = "running") => Kept(cad, lval)

(* All lines have the same token count.                                    *)
Rectangular(rows) == ~Ragged(rows)

IsColumnMajor(rows, tbl) ==
    /\ Len(tbl) = Len(rows[1])
    /\ \A i \in 1..Len(tbl) :
         /\ Len(tbl[i]) = Len(rows)
         /\ \A r \in 1..Len(rows) : tbl[i][r] = rows[r][i]

(* C5 as stated: for every readable input whose lines all have the same    *)
(* token count a column-major table is returned, and transposing it again  *)
(* gives the lines back.                                                   *)
C5_AsStated ==
    /\ (pc \in {"read_done", "transposed"} /\ fileok /\ Rectangular(cad)) =>
           (status = "running" /\ cad # <<>> /\ IsColumnMajor(cad, lval))
    /\ (pc = "transposed" /\ Rectangular(cad)) =>
           (back.raised = "" /\ back.table = cad)

(* C5 on inputs of at least one line with at least one token on every     *)
(* line: the table is column-major and transposes back to the lines.       *)
C5_TransposeRoundTrip ==
    LET covered == fileok /\ cad # <<>> /\ Rectangular(cad) /\ Len(cad[1]) >= 1
    IN  /\ (pc \in {"read_done", "transposed"} /\ covered) =>
               (status = "running" /\ IsColumnMajor(cad, lval))
        /\ (pc = "transposed" /\ covered) =>
               (back.raised = "" /\ back.table = cad)

(* A table of several different tokens per line was transposed twice.      *)
C5_Witness ==
    /\ pc = "transposed"
    /\ Len(cad) >= 2 /\ Rectangular(cad) /\ Len(cad[1]) >= 2
    /\ cad[1][1] # cad[1][2]
    /\ Len(cad) # Len(cad[1])
    /\ back.raised = ""


---------------------------------------------------------------------------
(* Lineplot.ordenatewithquicksort, one action per statement.               *)

(* lval[k][col - 1] can be read.                                           *)
CanRead(pts, k, col) == PyHas(pts, k) /\ PyHas(PyGet(pts, k), col - 1)

(* int(lval[k][col - 1])                                                   *)
Cell(pts, k, col) == PyGet(PyGet(pts, k), col - 1)

(* lval[k][col - 1] = v                                                    *)
SetCell(pts, k, col, v) == PySet(pts, k, PySet(PyGet(pts, k), col - 1, v))

(* pivot = (int(lval[first][x]) + int(lval[last][x])) / 2                  *)
Pivot(pts, first, last, xc) ==
    FloorDiv(Cell(pts, first, xc) + Cell(pts, last, xc), 2)

(* The upward scan going past the elements equal to the pivot.             *)
ScanUpPastEqual(pts, ivar, pivot, xc) == Cell(pts, ivar, xc) <= pivot

(* while int(lval[ivar][x]) < pivot                                        *)
ScanUp(pts, ivar, pivot, xc) == Cell(pts, ivar, xc) < pivot

(* The downward scan going past the elements equal to the pivot.           *)
ScanDownPastEqual(pts, jvar, pivot, xc) == Cell(pts, jvar, xc) >= pivot

(* while int(lval[jvar][x]) > pivot                                        *)
ScanDown(pts, jvar, pivot, xc) == Cell(pts, jvar, xc) > pivot

(* The exchange with the x values left where they are.                     *)
ExchangeOnlyY(pts, ivar, jvar, xc, yc) ==
    LET aux2 == Cell(pts, ivar, yc)
    IN  SetCell(SetCell(pts, ivar, yc, Cell(pts, jvar, yc)), jvar, yc, aux2)

(* The exchange with the y values left where they are.                     *)
ExchangeOnlyX(pts, ivar, jvar, xc, yc) ==
    LET aux1 == Cell(pts, ivar, xc)
    IN  SetCell(SetCell(pts, ivar, xc, Cell(pts, jvar, xc)), jvar, xc, aux1)

(* The six assignments of the exchange, in the order of the code.          *)
Exchange(pts, ivar, jvar, xc, yc) ==
    LET aux1 == Cell(pts, ivar, xc)
        aux2 == Cell(pts, ivar, yc)
        l1 == SetCell(pts, ivar, xc, Cell(pts, jvar, xc))
        l2 == SetCell(l1, ivar, yc, Cell(l1, jvar, yc))
        l3 == SetCell(l2, jvar, xc, aux1)
    IN  SetCell(l3, jvar, yc, aux2)

Frame(first, last, ivar, jvar, pivot, at) ==
    [first |-> first, last |-> last, ivar |-> ivar, jvar |-> jvar,
     pivot |-> pivot, at |-> at]

Top == stack[Len(stack)]

SetTop(f) == [stack EXCEPT ![Len(stack)] = f]

(* Entry of a call: ivar = first, jvar = last and the pivot.               *)
Enter(first, last, rest) ==
    IF /\ CanRead(lpoints, first, opts.xcolumn)
       /\ CanRead(lpoints, last, opts.xcolumn)
    THEN /\ stack' = Append(rest,
                 Frame(first, last, first, last,
                       Pivot(lpoints, first, last, opts.xcolumn), "while"))
         /\ pc' = "sorting"
         /\ UNCHANGED raised
    ELSE /\ raised' = "IndexError"
         /\ pc' = "raised"
         /\ stack' = <<>>

(* while ivar < jvar                                                       *)
WhileTest ==
    /\ pc = "sorting" /\ stack # <<>> /\ Top.at = "while"
    /\ stack' = SetTop([Top EXCEPT !.at =
                           IF Top.ivar < Top.jvar THEN "scanup" ELSE "left"])
    /\ UNCHANGED <<pc, lpoints, raised, NotSort>>

(* while int(lval[ivar][x]) < pivot: ivar += 1                             *)
ScanUpStep ==
    /\ pc = "sorting" /\ stack # <<>> /\ Top.at = "scanup"
    /\ IF ~CanRead(lpoints, Top.ivar, opts.xcolumn)
       THEN raised' = "IndexError" /\ pc' = "raised" /\ stack' = <<>>
       ELSE /\ stack' = SetTop(
                  IF ScanUp(lpoints, Top.ivar, Top.pivot, opts.xcolumn)
                  THEN [Top EXCEPT !.ivar = @ + 1]
                  ELSE [Top EXCEPT !.at = "scandown"])
            /\ UNCHANGED <<pc, raised>>
    /\ UNCHANGED <<lpoints, NotSort>>

(* while int(lval[jvar][x]) > pivot: jvar -= 1                             *)
ScanDownStep ==
    /\ pc = "sorting" /\ stack # <<>> /\ Top.at = "scandown"
    /\ IF ~CanRead(lpoints, Top.jvar, opts.xcolumn)
       THEN raised' = "IndexError" /\ pc' = "raised" /\ stack' = <<>>
       ELSE /\ stack' = SetTop(
                  IF ScanDown(lpoints, Top.jvar, Top.pivot, opts.xcolumn)
                  THEN [Top EXCEPT !.jvar = @ - 1]
                  ELSE [Top EXCEPT !.at = "exchange"])
            /\ UNCHANGED <<pc, raised>>
    /\ UNCHANGED <<lpoints, NotSort>>

(* The exchange step with ivar and jvar left where they are.               *)
ExchangeStays ==
    /\ pc = "sorting" /\ stack # <<>> /\ Top.at = "exchange"
    /\ IF Top.ivar <= Top.jvar
       THEN /\ lpoints' = Exchange(lpoints, Top.ivar, Top.jvar,
                                   opts.xcolumn, opts.ycolumn)
            /\ stack' = SetTop([Top EXCEPT !.at = "while"])
       ELSE /\ stack' = SetTop([Top EXCEPT !.at = "while"])
            /\ UNCHANGED lpoints
    /\ UNCHANGED <<pc, raised, NotSort>>

(* if ivar <= jvar: exchange x and y of the two points, ivar += 1,         *)
(* jvar -= 1                                                               *)
ExchangeStep ==
    /\ pc = "sorting" /\ stack # <<>> /\ Top.at = "exchange"
    /\ IF Top.ivar <= Top.jvar
       THEN IF CanRead(lpoints, Top.ivar, opts.xcolumn)
               /\ CanRead(lpoints, Top.ivar, opts.ycolumn)
               /\ CanRead(lpoints, Top.jvar, opts.xcolumn)
               /\ CanRead(lpoints, Top.jvar, opts.ycolumn)
            THEN /\ lpoints' = Exchange(lpoints, Top.ivar, Top.jvar,
                                        opts.xcolumn, opts.ycolumn)
                 /\ stack' = SetTop([Top EXCEPT !.ivar = @ + 1,
                                                !.jvar = @ - 1,
                                                !.at = "while"])
                 /\ UNCHANGED <<pc, raised>>
            ELSE /\ raised' = "IndexError" /\ pc' = "raised"
                 /\ stack' = <<>>
                 /\ UNCHANGED lpoints
       ELSE /\ stack' = SetTop([Top EXCEPT !.at = "while"])
            /\ UNCHANGED <<pc, raised, lpoints>>
    /\ UNCHANGED NotSort

(* if first < jvar: lval = self.ordenatewithquicksort(lval, first, jvar)   *)
RecurseLeft ==
    /\ pc = "sorting" /\ stack # <<>> /\ Top.at = "left"
    /\ IF Top.first < Top.jvar
       THEN Enter(Top.first, Top.jvar, SetTop([Top EXCEPT !.at = "right"]))
       ELSE /\ stack' = SetTop([Top EXCEPT !.at = "right"])
            /\ UNCHANGED <<pc, raised>>
    /\ UNCHANGED <<lpoints, NotSort>>

(* if last > ivar: lval = self.ordenatewithquicksort(lval, ivar, last)     *)
RecurseRight ==
    /\ pc = "sorting" /\ stack # <<>> /\ Top.at = "right"
    /\ IF Top.last > Top.ivar
       THEN Enter(Top.ivar, Top.last, SetTop([Top EXCEPT !.at = "return"]))
       ELSE /\ stack' = SetTop([Top EXCEPT !.at = "return"])
            /\ UNCHANGED <<pc, raised>>
    /\ UNCHANGED <<lpoints, NotSort>>

(* return lval                                                             *)
Return ==
    /\ pc = "sorting" /\ stack # <<>> /\ Top.at = "return"
    /\ stack' = SubSeq(stack, 1, Len(stack) - 1)
    /\ pc' = IF Len(stack) = 1 THEN "sorted" ELSE pc
    /\ UNCHANGED <<lpoints, raised, NotSort>>

SortStep ==
    \/ WhileTest
    \/ ScanUpStep
    \/ ScanDownStep
    \/ ExchangeStep
    \/ RecurseLeft
    \/ RecurseRight
    \/ Return

---------------------------------------------------------------------------
(* The sort called on its own: ordenatewithquicksort(points, 0,            *)
(* len(points) - 1) on a Lineplot built with the default columns x = 1,    *)
(* y = 2 of main().                                                        *)

(* The y values of a list of n points: all different, or all equal.        *)
YPatterns(n) == {[i \in 1..n |-> i - 1], [i \in 1..n |-> 0]}

PointLists ==
    UNION {{[i \in 1..n |-> <<xs[i], ys[i]>>] :
              xs \in [1..n -> Coords], ys \in YPatterns(n)} : n \in 1..MaxLen}

InitSort ==
    /\ pc = "call"
    /\ opts = Defaults
    /\ lval = <<>>
    /\ input \in PointLists
    /\ lpoints = input
    /\ stack = <<>>
    /\ raised = ""
    /\ IdleRead
    /\ IdleAxis
    /\ IdleChart
    /\ IdleRun

SortCall ==
    /\ pc = "call"
    /\ Enter(0, Len(lpoints) - 1, <<>>)
    /\ UNCHANGED <<lpoints, NotSort>>

NextSort == SortCall \/ SortStep

SpecSort == InitSort /\ [][NextSort]_vars

(* How often point p occurs in the list.                                   *)
Count(lst, p) == Cardinality({i \in 1..Len(lst) : lst[i] = p})

SamePoints(a, b) ==
    /\ Len(a) = Len(b)
    /\ \A i \in 1..Len(a) : Count(a, a[i]) = Count(b, a[i])

SortedByX(lst) == \A i \in 1..(Len(lst) - 1) : lst[i][1] <= lst[i + 1][1]

(* C1: after ordenatewithquicksort(points, 0, len(points) - 1) has         *)
(* returned, points[i].x <= points[i+1].x for every valid i (Lineplot with *)
(* the default columns x = 1, y = 2; lists with duplicates and negative    *)
(* values included).                                                       *)
C1_SortPostcondition == pc = "sorted" => SortedByX(lpoints)

(* A returned sort of an unsorted list with a duplicate x and a negative x *)
C1_Witness ==
    /\ pc = "sorted"
    /\ Len(input) >= 3
    /\ ~SortedByX(input)
    /\ \E i, j \in 1..Len(input) : i # j /\ input[i][1] = input[j][1]
    /\ \E i \in 1..Len(input) : input[i][1] < 0

---------------------------------------------------------------------------
(* Lineplot.printsvg from the transformation of the table into points to   *)
(* the closed path (lines 3444-3453), on a table of two columns.           *)

(* Scatterplot.getmaxpoint: the largest int() of a non-empty column.       *)
GetMaxPoint(col) ==
    CHOOSE v \in {IntOf(col[i]) : i \in 1..Len(col)} :
        \A i \in 1..Len(col) : IntOf(col[i]) <= v

(* Scatterplot.getmaxaxis: <<xmaxaxis, ymaxaxis>>; the second data set is  *)
(* looked at when the table has more than xcolumn2 columns, its y column   *)
(* being the last column of the table.                                     *)
GetMaxAxis(tbl, o) ==
    LET ymax1 == GetMaxPoint(PyGet(tbl, o.ycolumn - 1))
        xmax1 == GetMaxPoint(PyGet(tbl, o.xcolumn - 1))
        ymax2 == GetMaxPoint(PyGet(tbl, Len(tbl) - 1))
        xmax2 == GetMaxPoint(PyGet(tbl, o.xcolumn2 - 1))
    IN  IF Len(tbl) > o.xcolumn2
        THEN <<IF xmax2 > xmax1 THEN xmax2 ELSE xmax1,
               IF ymax2 > ymax1 THEN ymax2 ELSE ymax1>>
        ELSE <<xmax1, ymax1>>

(* Lineplot.transformtocoordenates: one point [x, ymaxpoint - y] per row.  *)
TransformToCoordenates(tbl, ymaxpoint, o) ==
    [num \in 1..Len(PyGet(tbl, o.xcolumn - 1)) |->
        <<IntOf(PyGet(tbl, o.xcolumn - 1)[num]),
          ymaxpoint - IntOf(PyGet(tbl, o.ycolumn - 1)[num])>>]

(* Tables of two numeric columns: one column takes every value, the other  *)
(* tells the rows apart or is constant.                                    *)
LineTables ==
    UNION {{<<[i \in 1..n |-> Num(a[i])], [i \in 1..n |-> Num(b[i])]>> :
              a \in [1..n -> Coords], b \in YPatterns(n)}
           \cup
           {<<[i \in 1..n |-> Num(b[i])], [i \in 1..n |-> Num(a[i])]>> :
              a \in [1..n -> Coords], b \in YPatterns(n)} : n \in 1..MaxRows}

InitLineplot ==
    /\ pc = "points"
    /\ lval \in LineTables
    /\ \E xc \in 1..2, yc \in 1..2 :
           opts = [Defaults EXCEPT !.prefab = "lines", !.xcolumn = xc,
                                   !.ycolumn = yc]
    /\ input = <<>>
    /\ lpoints = <<>>
    /\ stack = <<>>
    /\ raised = ""
    /\ IdleRead
    /\ IdleAxis
    /\ IdleChart
    /\ IdleRun

(* lpoints = self.transformtocoordenates(self.lval, ymaxaxis)              *)
LineTransform ==
    /\ pc = "points"
    /\ opts.prefab = "lines"
    /\ lpoints' = TransformToCoordenates(lval, GetMaxAxis(lval, opts)[2], opts)
    /\ input' = lpoints'
    /\ pc' = "lp_sort"
    /\ UNCHANGED <<opts, lval, raised, stack, readVars, axisVars, runVars,
                   chartVars>>

(* self.ordenatewithquicksort(lpoints, int(self.xcolumn) - 1,              *)
(*                            len(lpoints) - 1)                            *)
LineSortCall ==
    /\ pc = "lp_sort"
    /\ Enter(opts.xcolumn - 1, Len(lpoints) - 1, <<>>)
    /\ UNCHANGED <<lpoints, NotSort>>

(* lpointsordenate.insert(0, [lpointsordenate[0][0], ymaxaxis]);           *)
(* lpointsordenate.append([getmaxpoint(X column), ymaxaxis])               *)
LineClose ==
    /\ pc = "sorted"
    /\ lpoints' = <<<<lpoints[1][1], GetMaxAxis(lval, opts)[2]>>>> \o lpoints
                  \o <<<<GetMaxPoint(PyGet(lval, opts.xcolumn - 1)),
                         GetMaxAxis(lval, opts)[2]>>>>
    /\ pc' = "connected"
    /\ UNCHANGED <<opts, lval, raised, input, stack, readVars, axisVars,
                   runVars, chartVars>>

NextLineplot == LineTransform \/ LineSortCall \/ SortStep \/ LineClose

SpecLineplot == InitLineplot /\ [][NextLineplot]_vars

(* The points Linepath connects, without the two boundary points.          *)
Connected == SubSeq(lpoints, 2, Len(lpoints) - 1)

(* C3: whichever columns --x and --y select, the points of the line plot   *)
(* are connected in non-decreasing X order.                                *)
C3_ConnectedInXOrder == pc = "connected" => SortedByX(Connected)


---------------------------------------------------------------------------
(* The axes of the bar, scatter and line charts, and the bars.             *)

(* int() succeeds on every cell of the column.                             *)
AllInt(col) == \A i \in 1..Len(col) : IsInt(col[i])

(* The handler of an exception that ends the process: its message is       *)
(* printed and sys.exit(2) called, or the traceback printed (status 1).    *)
Exit(error, how) ==
    /\ raised' = error
    /\ status' = how
    /\ pc' = "exited"

(* The loop "if m < int(col[num]): m = int(col[num])" started at start.    *)
RunningMax(start, col) ==
    CHOOSE v \in {start} \cup {IntOf(col[i]) : i \in 1..Len(col)} :
        /\ start <= v
        /\ \A i \in 1..Len(col) : IntOf(col[i]) <= v

(* The second bar set is drawn: the table has exactly ycolumn2 columns.    *)
SecondSet(tbl, o) == Len(tbl) = o.ycolumn2

(* The largest Y value, whatever the second set.                           *)
SetMaximumBarsFirstSet(tbl, o) ==
    LET ycol == PyGet(tbl, o.ycolumn - 1)
    IN  RunningMax(IntOf(ycol[1]), ycol)

(* Bardiagram.setmaximumbars: heightmaxbar over the Y column, auxmaxbar    *)
(* from the first Y value over the Y2 column, the larger of the two.       *)
SetMaximumBars(tbl, o) ==
    LET ycol == PyGet(tbl, o.ycolumn - 1)
        hmax == RunningMax(IntOf(ycol[1]), ycol)
        auxmaxbar == RunningMax(IntOf(ycol[1]), PyGet(tbl, o.ycolumn2 - 1))
    IN  IF SecondSet(tbl, o) /\ hmax < auxmaxbar THEN auxmaxbar ELSE hmax

(* The exception Bardiagram.setmaximumbars raises, "" for none.            *)
SetMaximumBarsRaises(tbl, o) ==
    IF ~PyHas(tbl, o.ycolumn - 1) THEN "IndexError"
    ELSE IF ~AllInt(PyGet(tbl, o.ycolumn - 1)) THEN "ValueError"
    ELSE IF SecondSet(tbl, o) /\ ~AllInt(PyGet(tbl, o.ycolumn2 - 1))
    THEN "ValueError"
    ELSE ""

(* The exception Bardiagram3d.__init__ meets, "" for none.                 *)
SetMaximumBars3dRaises(tbl, o) ==
    IF ~PyHas(tbl, o.ycolumn - 1) THEN "IndexError"
    ELSE IF ~AllInt(PyGet(tbl, o.ycolumn - 1)) THEN "ValueError"
    ELSE ""

(* Bardiagram3d.setmaximumbars, on the Y column.                           *)
SetMaximumBars3d(col) == RunningMax(IntOf(col[1]), col)

(* Bardiagram.__init__: IndexError and ValueError print a message and call *)
(* sys.exit(2).                                                            *)
BarConstruct ==
    /\ pc = "construct"
    /\ opts.prefab = "bardiagram"
    /\ IF SetMaximumBarsRaises(lval, opts) # ""
       THEN /\ Exit(SetMaximumBarsRaises(lval, opts), "exit2")
            /\ UNCHANGED heightmaxbar
       ELSE /\ heightmaxbar' = SetMaximumBars(lval, opts)
            /\ pc' = "printsvg"
            /\ UNCHANGED <<raised, status>>
    /\ UNCHANGED <<maxaxis, inc, counter, yticks, xticks, bars>>
    /\ UNCHANGED NotAxis

(* Bardiagram3d.__init__: IndexError and ValueError print a message and    *)
(* call sys.exit(2).                                                       *)
Bar3dConstruct ==
    /\ pc = "construct"
    /\ opts.prefab = "bardiagram3d"
    /\ IF SetMaximumBars3dRaises(lval, opts) # ""
       THEN /\ Exit(SetMaximumBars3dRaises(lval, opts), "exit2")
            /\ UNCHANGED heightmaxbar
       ELSE /\ heightmaxbar' = SetMaximumBars3d(PyGet(lval, opts.ycolumn - 1))
            /\ pc' = "printsvg"
            /\ UNCHANGED <<raised, status>>
    /\ UNCHANGED <<maxaxis, inc, counter, yticks, xticks, bars>>
    /\ UNCHANGED NotAxis

(* counter = 0; inc = int(self.yrange)                                     *)
BarAxisStart ==
    /\ pc = "printsvg"
    /\ opts.prefab \in {"bardiagram", "bardiagram3d"}
    /\ counter' = 0
    /\ inc' = opts.yrange
    /\ pc' = "yticks"
    /\ UNCHANGED <<heightmaxbar, maxaxis, yticks, xticks, bars>>
    /\ UNCHANGED <<raised, status, NotAxis>>

(* The iteration with the increments added up: inc = inc + yinc * counter. *)
BarTickStepAddsUp ==
    /\ pc = "yticks"
    /\ inc <= heightmaxbar
    /\ counter < MaxTicks
    /\ yticks' = Append(yticks, inc)
    /\ counter' = counter + 1
    /\ inc' = inc + opts.yinc * (counter + 1)
    /\ UNCHANGED <<pc, heightmaxbar, maxaxis, xticks, bars>>
    /\ UNCHANGED <<raised, status, NotAxis>>

(* One iteration of "while inc <= heightmaxbar": the label str(inc), then  *)
(* counter += 1 and inc = int(yrange) + int(yinc) * counter.               *)
BarTickStep ==
    /\ pc = "yticks"
    /\ inc <= heightmaxbar
    /\ counter < MaxTicks
    /\ yticks' = Append(yticks, inc)
    /\ counter' = counter + 1
    /\ inc' = opts.yrange + opts.yinc * (counter + 1)
    /\ UNCHANGED <<pc, heightmaxbar, maxaxis, xticks, bars>>
    /\ UNCHANGED <<raised, status, NotAxis>>

(* Bardiagram.printsvg, the tick loop                                      *)
BarTick == opts.prefab = "bardiagram" /\ BarTickStep

(* Bardiagram3d.printsvg, the tick loop                                    *)
Bar3dTick == opts.prefab = "bardiagram3d" /\ BarTickStep

(* The test of the while fails.                                            *)
BarTicksDone ==
    /\ pc = "yticks"
    /\ opts.prefab \in {"bardiagram", "bardiagram3d"}
    /\ ~(inc <= heightmaxbar)
    /\ pc' = "bars"
    /\ UNCHANGED <<axisVars, raised, status, NotAxis>>

(* Column(xvalue, yvalue, int(yvalue) - int(yrange), .., yoriginbar, ..)   *)
Column(set, yvalue, o, hmax) ==
    [set |-> set, value |-> yvalue, height |-> yvalue - o.yrange,
     yoriginbar |-> o.yorigin + hmax - yvalue]

(* Bardiagram.printsvg, the bars: per row the bar of the first set and,    *)
(* with a second set, the bar of the second set next to it.                *)
BarDraw ==
    /\ pc = "bars"
    /\ opts.prefab = "bardiagram"
    /\ LET n == Len(PyGet(lval, opts.xcolumn - 1))
           y1(cont) == IntOf(PyGet(lval, opts.ycolumn - 1)[cont])
           y2(cont) == IntOf(PyGet(lval, opts.ycolumn2 - 1)[cont])
       IN  IF ~PyHas(lval, opts.xcolumn - 1)
           THEN /\ Exit("IndexError", "exit2")
                /\ UNCHANGED bars
           ELSE /\ bars' =
                     IF SecondSet(lval, opts)
                     THEN [k \in 1..(2 * n) |->
                             IF k % 2 = 1
                             THEN Column(1, y1((k + 1) \div 2), opts,
                                         heightmaxbar)
                             ELSE Column(2, y2(k \div 2), opts,
                                         heightmaxbar)]
                     ELSE [k \in 1..n |->
                             Column(1, y1(k), opts, heightmaxbar)]
                /\ pc' = "composed"
                /\ UNCHANGED <<raised, status>>
    /\ UNCHANGED <<heightmaxbar, maxaxis, inc, counter, yticks, xticks>>
    /\ UNCHANGED NotAxis

(* The bars of Bardiagram3d.printsvg without the test of yrange            *)
Bar3dDrawUnchecked ==
    /\ pc = "bars"
    /\ opts.prefab = "bardiagram3d"
    /\ PyHas(lval, opts.xcolumn - 1)
    /\ bars' = [k \in 1..Len(PyGet(lval, opts.xcolumn - 1)) |->
                  Column(1, IntOf(PyGet(lval, opts.ycolumn - 1)[k]), opts,
                         heightmaxbar)]
    /\ pc' = "composed"
    /\ UNCHANGED <<raised, status>>
    /\ UNCHANGED <<heightmaxbar, maxaxis, inc, counter, yticks, xticks>>
    /\ UNCHANGED NotAxis

(* Bardiagram3d.printsvg, the bars: a missing X column or a value below    *)
(* yrange prints a message and calls sys.exit(2).                          *)
Bar3dDraw ==
    /\ pc = "bars"
    /\ opts.prefab = "bardiagram3d"
    /\ LET n == Len(PyGet(lval, opts.xcolumn - 1))
           y1(cont) == IntOf(PyGet(lval, opts.ycolumn - 1)[cont])
       IN  IF ~PyHas(lval, opts.xcolumn - 1)
           THEN /\ Exit("IndexError", "exit2")
                /\ UNCHANGED bars
           ELSE IF \E cont \in 1..n : ~(opts.yrange <= y1(cont))
           THEN /\ Exit("ValueError", "exit2")
                /\ UNCHANGED bars
           ELSE /\ bars' = [k \in 1..n |->
                              Column(1, y1(k), opts, heightmaxbar)]
                /\ pc' = "composed"
                /\ UNCHANGED <<raised, status>>
    /\ UNCHANGED <<heightmaxbar, maxaxis, inc, counter, yticks, xticks>>
    /\ UNCHANGED NotAxis

(* The exception getmaxaxis meets, "" for none: the Y column, the X column *)
(* and, in a table of more than xcolumn2 columns, the last column and the  *)
(* X2 column are looked up and converted in this order.                    *)
GetMaxAxisRaises(tbl, o) ==
    IF ~PyHas(tbl, o.ycolumn - 1) THEN "IndexError"
    ELSE IF ~AllInt(PyGet(tbl, o.ycolumn - 1)) THEN "ValueError"
    ELSE IF ~PyHas(tbl, o.xcolumn - 1) THEN "IndexError"
    ELSE IF ~AllInt(PyGet(tbl, o.xcolumn - 1)) THEN "ValueError"
    ELSE IF Len(tbl) > o.xcolumn2 /\ ~AllInt(PyGet(tbl, Len(tbl) - 1))
    THEN "ValueError"
    ELSE IF Len(tbl) > o.xcolumn2 /\ ~AllInt(PyGet(tbl, o.xcolumn2 - 1))
    THEN "ValueError"
    ELSE ""

(* xmaxaxis, ymaxaxis = self.getmaxaxis(self.lval); cont = 0;              *)
(* auxinc = int(self.yinc). The IndexError is handled by printsvg, the     *)
(* ValueError by getmaxpoint, both with a message and sys.exit(2).         *)
PointAxisStart ==
    /\ pc = "printsvg"
    /\ IF GetMaxAxisRaises(lval, opts) # ""
       THEN /\ Exit(GetMaxAxisRaises(lval, opts), "exit2")
            /\ UNCHANGED <<maxaxis, counter, inc>>
       ELSE /\ maxaxis' = GetMaxAxis(lval, opts)
            /\ counter' = 0
            /\ inc' = opts.yinc
            /\ pc' = "yticks"
            /\ UNCHANGED <<raised, status>>
    /\ UNCHANGED <<heightmaxbar, yticks, xticks, bars>>
    /\ UNCHANGED NotAxis

(* The iteration with self.yinc left as it is.                             *)
YTickStepStuck ==
    /\ pc = "yticks"
    /\ inc <= maxaxis[2]
    /\ counter < MaxTicks
    /\ yticks' = Append(yticks, inc)
    /\ inc' = inc
    /\ counter' = counter + 1
    /\ UNCHANGED <<pc, heightmaxbar, maxaxis, xticks, bars>>
    /\ UNCHANGED <<raised, status, NotAxis>>

(* One iteration of "while int(self.yinc) <= ymaxaxis": the label          *)
(* self.yinc, then self.yinc = auxinc * cont and cont += 1.                *)
YTickStep ==
    /\ pc = "yticks"
    /\ inc <= maxaxis[2]
    /\ counter < MaxTicks
    /\ yticks' = Append(yticks, inc)
    /\ inc' = opts.yinc * counter
    /\ counter' = counter + 1
    /\ UNCHANGED <<pc, heightmaxbar, maxaxis, xticks, bars>>
    /\ UNCHANGED <<raised, status, NotAxis>>

(* The test of the first while fails: cont = 0; self.yinc = auxinc         *)
YTicksDoneStep ==
    /\ pc = "yticks"
    /\ ~(inc <= maxaxis[2])
    /\ counter' = 0
    /\ inc' = opts.yinc
    /\ pc' = "xticks"
    /\ UNCHANGED <<heightmaxbar, maxaxis, yticks, xticks, bars>>
    /\ UNCHANGED <<raised, status, NotAxis>>

(* One iteration of "while int(self.yinc) <= xmaxaxis"                     *)
XTickStep ==
    /\ pc = "xticks"
    /\ inc <= maxaxis[1]
    /\ counter < MaxTicks
    /\ xticks' = Append(xticks, inc)
    /\ inc' = opts.yinc * counter
    /\ counter' = counter + 1
    /\ UNCHANGED <<pc, heightmaxbar, maxaxis, yticks, bars>>
    /\ UNCHANGED <<raised, status, NotAxis>>

(* The test of the second while fails.                                     *)
XTicksDoneStep ==
    /\ pc = "xticks"
    /\ ~(inc <= maxaxis[1])
    /\ pc' = "points"
    /\ UNCHANGED <<axisVars, raised, status, NotAxis>>

(* Scatterplot.printsvg up to the points                                   *)
ScatAxisStart == opts.prefab = "scat" /\ PointAxisStart
ScatYTick == opts.prefab = "scat" /\ YTickStep
ScatYTicksDone == opts.prefab = "scat" /\ YTicksDoneStep
ScatXTick == opts.prefab = "scat" /\ XTickStep
ScatXTicksDone == opts.prefab = "scat" /\ XTicksDoneStep

(* Lineplot.printsvg up to the points                                      *)
LineAxisStart == opts.prefab = "lines" /\ PointAxisStart
LineYTick == opts.prefab = "lines" /\ YTickStep
LineYTicksDone == opts.prefab = "lines" /\ YTicksDoneStep
LineXTick == opts.prefab = "lines" /\ XTickStep
LineXTicksDone == opts.prefab = "lines" /\ XTicksDoneStep

(* The second column of a three-column table: the Y column read from the   *)
(* last row upwards, every value moved by d.                               *)
ShiftedColumn(y, d) == [i \in 1..Len(y) |-> Num(y[Len(y) + 1 - i] + d)]

(* Tables of a label column and a Y column, of at most MaxBars rows.       *)
TwoColumnTables ==
    UNION {{<<[i \in 1..n |-> Num(i - 1)], [i \in 1..n |-> Num(y[i])]>> :
              y \in [1..n -> Coords]} : n \in 1..MaxBars}

(* The same with a third column, the Y2 column of the 2-D bar chart.       *)
ThreeColumnTables ==
    {Append(tbl, ShiftedColumn([i \in 1..Len(tbl[2]) |-> IntOf(tbl[2][i])],
                               d)) :
       tbl \in TwoColumnTables, d \in {0 - 1, 1}}

(* The example data of the Bardiagram3d documentation.                     *)
SeatsTable ==
    <<[i \in 1..7 |-> Word],
      <<Num(366), Num(42), Num(15), Num(67), Num(276), Num(27), Num(66)>>>>

BarCharts == {"bardiagram", "bardiagram3d"}

PointCharts == {"scat", "lines"}

InitAxis ==
    /\ pc = "construct"
    /\ \/ /\ lval \in TwoColumnTables
          /\ \E chart \in BarCharts, yr \in Coords, yi \in Coords :
                 opts = [Defaults EXCEPT !.prefab = chart, !.yrange = yr,
                                         !.yinc = yi]
       \/ /\ lval \in ThreeColumnTables
          /\ \E yr \in Coords, yi \in Coords :
                 opts = [Defaults EXCEPT !.prefab = "bardiagram",
                                         !.yrange = yr, !.yinc = yi]
       \/ /\ lval \in TwoColumnTables
          /\ \E chart \in PointCharts, yi \in Coords :
                 opts = [Defaults EXCEPT !.prefab = chart, !.yinc = yi]
       \/ /\ lval = SeatsTable
          /\ \E chart \in BarCharts :
                 opts = [Defaults EXCEPT !.prefab = chart, !.yrange = 0,
                                         !.yinc = 20]
    /\ raised = ""
    /\ input = <<>>
    /\ lpoints = <<>>
    /\ stack = <<>>
    /\ IdleRead
    /\ IdleAxis
    /\ IdleChart
    /\ IdleRun

(* Scatterplot.__init__, Lineplot.__init__: the table and the options are  *)
(* stored.                                                                 *)
PointConstruct ==
    /\ pc = "construct"
    /\ opts.prefab \in PointCharts
    /\ pc' = "printsvg"
    /\ UNCHANGED <<axisVars, raised, status, NotAxis>>

NextAxis ==
    \/ BarConstruct \/ Bar3dConstruct \/ BarAxisStart
    \/ BarTick \/ Bar3dTick \/ BarTicksDone
    \/ BarDraw \/ Bar3dDraw
    \/ PointConstruct
    \/ ScatAxisStart \/ ScatYTick \/ ScatYTicksDone
    \/ ScatXTick \/ ScatXTicksDone
    \/ LineAxisStart \/ LineYTick \/ LineYTicksDone
    \/ LineXTick \/ LineXTicksDone

SpecAxis == InitAxis /\ [][NextAxis]_vars

---------------------------------------------------------------------------
(* pySVG.getprocessargs: a run from the command line to the output file.   *)

(* sumlval of getaverage, sumvalues of Piechart.totalsum                   *)
RECURSIVE SumOf(_)
SumOf(col) == IF col = <<>> THEN 0 ELSE IntOf(Head(col)) + SumOf(Tail(col))

(* The quotient of a by b > 0 truncated toward zero.                       *)
TruncDiv(a, b) == IF a >= 0 THEN a \div b ELSE 0 - ((0 - a) \div b)

(* getaverage with a quotient truncated toward zero                        *)
GetAverageTruncates(col) == TruncDiv(SumOf(col), Len(col))

(* Scatterplot.getaverage: int(sumlval / len(lval))                        *)
GetAverage(col) == FloorDiv(SumOf(col), Len(col))

(* Scatterplot.getvariance: int(var / len(lval)) with var the sum of the   *)
(* squared distances from the average.                                     *)
GetVariance(col) ==
    LET sq == [i \in 1..Len(col) |->
                 Num((IntOf(col[i]) - GetAverage(col)) *
                     (IntOf(col[i]) - GetAverage(col)))]
    IN  FloorDiv(SumOf(sq), Len(col))

(* The exception getregressionline(tbl) meets, "" for none: the covariance *)
(* reads the X and the Y column, then it is divided by the variance of X.  *)
RegressionRaises(tbl, o) ==
    IF ~PyHas(tbl, o.xcolumn - 1) \/ ~PyHas(tbl, o.ycolumn - 1)
    THEN "IndexError"
    ELSE IF ~AllInt(PyGet(tbl, o.xcolumn - 1)) \/
            ~AllInt(PyGet(tbl, o.ycolumn - 1))
    THEN "ValueError"
    ELSE IF GetVariance(PyGet(tbl, o.xcolumn - 1)) = 0
    THEN "ZeroDivisionError"
    ELSE ""

(* Scatterplot.getcovariance: int(covar / len(X)) with covar the sum over  *)
(* the rows of (x - average of X) * (y - average of Y).                    *)
GetCovariance(tbl, o) ==
    LET X == PyGet(tbl, o.xcolumn - 1)
        Y == PyGet(tbl, o.ycolumn - 1)
        prod == [i \in 1..Len(X) |->
                   Num((IntOf(X[i]) - GetAverage(X)) *
                       (IntOf(Y[i]) - GetAverage(Y)))]
    IN  FloorDiv(SumOf(prod), Len(X))

(* bcomponent of getregressionline: the slope of the line.                 *)
Bcomponent(tbl, o) ==
    FloatDiv(GetCovariance(tbl, o), GetVariance(PyGet(tbl, o.xcolumn - 1)))

(* Scatterplot.getregressionline: one pair [float(x), ylist] per row, with *)
(* ylist = bcomponent * (x - average of X) + average of Y.                 *)
GetRegressionLine(tbl, o) ==
    LET X == PyGet(tbl, o.xcolumn - 1)
        Y == PyGet(tbl, o.ycolumn - 1)
    IN  [cont \in 1..Len(X) |->
           <<Float(IntOf(X[cont])),
             FloatAddInt(FloatMulInt(Bcomponent(tbl, o),
                                     IntOf(X[cont]) - GetAverage(X)),
                         GetAverage(Y))>>]

(* self.lval[2:]                                                           *)
FromThird(tbl) == SubSeq(tbl, 3, Len(tbl))

(* The exception regtocoordenates meets, "" for none: every pair of the    *)
(* regression list is read at xcolumn - 1 and at ycolumn - 1.              *)
RegToCoordenatesRaises(o) ==
    IF PyHas(<<0, 0>>, o.xcolumn - 1) /\ PyHas(<<0, 0>>, o.ycolumn - 1)
    THEN "" ELSE "IndexError"

(* Scatterplot.regtocoordenates: [float(x), float(ymaxpoint) - float(y)]   *)
(* for every pair of the regression list.                                  *)
RegToCoordenates(reg, ymaxpoint, o) ==
    [num \in 1..Len(reg) |->
       <<PyGet(reg[num], o.xcolumn - 1),
         FloatSub(Float(ymaxpoint), PyGet(reg[num], o.ycolumn - 1))>>]

(* The exception the regression line of a table meets, "" for none.        *)
RegLineRaises(tbl, o) ==
    IF RegressionRaises(tbl, o) # "" THEN RegressionRaises(tbl, o)
    ELSE RegToCoordenatesRaises(o)

(* The points getsvgpoint is called with, row by row: the point of the     *)
(* first data set at yorigin + ymaxaxis - y and, in a table of more than   *)
(* xcolumn2 columns, the point of the second one, its y taken from the     *)
(* last column.                                                            *)
ScatterPoints(tbl, o, ymaxaxis) ==
    LET X == PyGet(tbl, o.xcolumn - 1)
        sets == IF Len(tbl) > o.xcolumn2 THEN 2 ELSE 1
        point(set, cont) ==
            LET x == IF set = 1 THEN IntOf(X[cont])
                     ELSE IntOf(PyGet(tbl, o.xcolumn2 - 1)[cont])
                y == IF set = 1 THEN IntOf(PyGet(tbl, o.ycolumn - 1)[cont])
                     ELSE IntOf(PyGet(tbl, Len(tbl) - 1)[cont])
            IN  [set |-> set, kind |-> "point",
                 x |-> Float(x), y |-> Float(y),
                 xpoint |-> Float(x + o.xorigin),
                 ypoint |-> Float(o.yorigin + ymaxaxis - y)]
    IN  [k \in 1..(sets * Len(X)) |->
           point(1 + ((k - 1) % sets), 1 + ((k - 1) \div sets))]

(* The vertices Linepath.printsvg writes for a regression line: "M" at the *)
(* first point, then "L" at every point, each at lpoints[i][0] + xorigin,  *)
(* lpoints[i][1] + yorigin.                                                *)
LinepathPoints(set, reg, ymaxpoint, o) ==
    LET lp == RegToCoordenates(reg, ymaxpoint, o)
        vertex(kind, i) ==
            [set |-> set, kind |-> kind,
             x |-> PyGet(reg[i], o.xcolumn - 1),
             y |-> PyGet(reg[i], o.ycolumn - 1),
             xpoint |-> FloatAddInt(lp[i][1], o.xorigin),
             ypoint |-> FloatAddInt(lp[i][2], o.yorigin)]
    IN  <<vertex("M", 1)>> \o [i \in 1..Len(lp) |-> vertex("L", i)]

(* The regression lines of Scatterplot.printsvg: the one of the first data *)
(* set is turned with the maximum of the Y column, the one of lval[2:]     *)
(* with the maximum of the last column.                                    *)
RegLines(tbl, o) ==
    LinepathPoints(1, GetRegressionLine(tbl, o),
                   GetMaxPoint(PyGet(tbl, o.ycolumn - 1)), o)
    \o (IF Len(tbl) > o.xcolumn2
        THEN LinepathPoints(2, GetRegressionLine(FromThird(tbl), o),
                            GetMaxPoint(PyGet(tbl, Len(tbl) - 1)), o)
        ELSE <<>>)

(* Scatterplot.printsvg after the axes: the points and, with --corr, the   *)
(* regression lines. printsvg handles IndexError with a message and        *)
(* sys.exit(2); a ZeroDivisionError or ValueError is handled nowhere.      *)
ScatPoints ==
    /\ pc = "points"
    /\ opts.prefab = "scat"
    /\ LET first == RegLineRaises(lval, opts)
           second == IF Len(lval) > opts.xcolumn2
                     THEN RegLineRaises(FromThird(lval), opts) ELSE ""
           error == IF ~opts.corr THEN ""
                    ELSE IF first # "" THEN first ELSE second
       IN  IF error = ""
           THEN /\ pc' = "composed"
                /\ drawn' = ScatterPoints(lval, opts, maxaxis[2]) \o
                            (IF opts.corr THEN RegLines(lval, opts) ELSE <<>>)
                /\ UNCHANGED <<raised, status>>
           ELSE /\ IF error = "IndexError" THEN Exit(error, "exit2")
                   ELSE Exit(error, "traceback")
                /\ UNCHANGED drawn
    /\ UNCHANGED <<opts, lval, sortVars, fileok, cad, back, axisVars, runVars,
                   average, reglist, slices, initianradian>>

(* Lineplot.printsvg after the line of the first data set, for a table     *)
(* without second data set: the points.                                    *)
LinePoints ==
    /\ pc = "connected"
    /\ opts.prefab = "lines"
    /\ ~(Len(lval) > opts.xcolumn2)
    /\ pc' = "composed"
    /\ UNCHANGED <<raised, status, axisVars, NotAxis>>

(* Lineplot.printsvg, except IndexError: a message and sys.exit(2).        *)
LineIndexError ==
    /\ pc = "raised"
    /\ opts.prefab = "lines"
    /\ Exit("IndexError", "exit2")
    /\ UNCHANGED <<axisVars, NotAxis>>

(* The exception Piechart.__init__ meets in totalsum and valuestoradians,  *)
(* "" for none.                                                            *)
PieConstructRaises(tbl, o) ==
    IF ~PyHas(tbl, o.values - 1) THEN "IndexError"
    ELSE IF ~AllInt(PyGet(tbl, o.values - 1)) THEN "ValueError"
    ELSE IF SumOf(PyGet(tbl, o.values - 1)) = 0 THEN "ZeroDivisionError"
    ELSE ""

(* Piechart.__init__: no handler around totalsum and valuestoradians.      *)
PieConstruct ==
    /\ pc = "construct"
    /\ opts.prefab = "pie"
    /\ IF PieConstructRaises(lval, opts) # ""
       THEN Exit(PieConstructRaises(lval, opts), "traceback")
       ELSE pc' = "printsvg" /\ UNCHANGED <<raised, status>>
    /\ UNCHANGED <<axisVars, NotAxis>>

(* Angles are kept as exact multiples of pi.                               *)
Pi == Float(1)

(* Piechart.totalsum: self.sumvalues                                       *)
TotalSum(tbl, o) == SumOf(PyGet(tbl, o.values - 1))

(* valuestoradians with the factor 2 left out                              *)
ValuesToHalfCircle(tbl, o) ==
    LET col == PyGet(tbl, o.values - 1)
    IN  [i \in 1..Len(col) |-> FloatDiv(IntOf(col[i]), TotalSum(tbl, o))]

(* Piechart.valuestoradians: (int(value) * 2 * pi) / self.sumvalues for    *)
(* every value of the values column.                                       *)
ValuesToRadians(tbl, o) ==
    LET col == PyGet(tbl, o.values - 1)
    IN  [i \in 1..Len(col) |-> FloatDiv(2 * IntOf(col[i]), TotalSum(tbl, o))]

(* round(r * 100, 1) in tenths, halves rounded away from zero.             *)
RoundTenths(r) ==
    IF r.num >= 0 THEN (2000 * r.num + r.den) \div (2 * r.den)
    ELSE 0 - ((2000 * (0 - r.num) + r.den) \div (2 * r.den))

(* sectorvalue rounded down instead of to the nearest tenth                *)
SectorValueFloors(value, sumvalues) ==
    (1000 * value) \div sumvalues

(* sectorvalue of Piechart.printsvg, in tenths of a percent:               *)
(* round(float(value) / float(self.sumvalues) * 100, 1)                    *)
SectorValue(value, sumvalues) == RoundTenths(FloatDiv(value, sumvalues))

(* The label distance with both ends of the interval included              *)
LabelFactorClosed(start, value) ==
    LET mid == FloatAdd(start, FloatHalf(value))
    IN  IF ~FloatLess(mid, FloatDiv(3, 4)) /\ ~FloatLess(FloatDiv(5, 4), mid)
        THEN 14 ELSE 12

(* The distance of the percentage text from the centre in tenths of the    *)
(* radius: 1.4 when initianradian + value / 2 is above 3 * pi / 4 and      *)
(* below 5 * pi / 4, else 1.2.                                             *)
LabelFactor(start, value) ==
    LET mid == FloatAdd(start, FloatHalf(value))
    IN  IF FloatLess(FloatDiv(3, 4), mid) /\ FloatLess(mid, FloatDiv(5, 4))
        THEN 14 ELSE 12

(* The large-arc-flag Path.printsvg writes: 1 if self.radian > pi.         *)
LargeArcFlag(radian) == IF FloatLess(Pi, radian) THEN 1 ELSE 0

(* finalradian of Path.printsvg without the span added                     *)
FinalRadianStays(start, radian) == start

(* finalradian of Path.printsvg: the angle where the arc ends.             *)
FinalRadian(start, radian) == FloatAdd(start, radian)

(* Piechart.printsvg up to the loop: a table whose number of columns is    *)
(* not colorfld prints a message and calls sys.exit(2).                    *)
PiePrint ==
    /\ pc = "printsvg"
    /\ opts.prefab = "pie"
    /\ IF Len(lval) # opts.colorfld
       THEN Exit("ValueError", "exit2")
       ELSE pc' = "sectors" /\ UNCHANGED <<raised, status>>
    /\ UNCHANGED <<axisVars, NotAxis>>

(* One turn of the loop over self.radianvalues: the percentage text and    *)
(* the Path of sector self.pos, then self.initianradian += value. A legend *)
(* without the labels column raises IndexError: a message and sys.exit(2). *)
PieSector ==
    /\ pc = "sectors"
    /\ opts.prefab = "pie"
    /\ Len(slices) < Len(ValuesToRadians(lval, opts))
    /\ LET pos == Len(slices)
           value == ValuesToRadians(lval, opts)[pos + 1]
           cell == IntOf(PyGet(PyGet(lval, opts.values - 1), pos))
       IN  IF opts.legend /\ ~PyHas(lval, opts.labels - 1)
           THEN /\ Exit("IndexError", "exit2")
                /\ UNCHANGED <<slices, initianradian>>
           ELSE /\ slices' = Append(slices,
                      [pos |-> pos,
                       value |-> cell,
                       sectorvalue |-> SectorValue(cell, TotalSum(lval, opts)),
                       factor |-> LabelFactor(initianradian, value),
                       initianradian |-> initianradian,
                       radian |-> value,
                       largearc |-> LargeArcFlag(value),
                       finalradian |-> FinalRadian(initianradian, value)])
                /\ initianradian' = FloatAdd(initianradian, value)
                /\ UNCHANGED <<pc, raised, status>>
    /\ UNCHANGED <<opts, lval, sortVars, fileok, cad, back, axisVars, runVars,
                   average, reglist, drawn>>

(* The loop is over: printsvg returns the chart.                           *)
PieDone ==
    /\ pc = "sectors"
    /\ opts.prefab = "pie"
    /\ Len(slices) = Len(ValuesToRadians(lval, opts))
    /\ pc' = "composed"
    /\ UNCHANGED <<raised, status, axisVars, NotAxis>>

Prefabs == {"bardiagram", "pie", "bardiagram3d", "scat", "lines"}

(* The file name of the chart's output.                                    *)
OutputName(prefab) ==
    CASE prefab = "bardiagram" -> "vbars2D.svg"
      [] prefab = "pie" -> "piechart.svg"
      [] prefab = "bardiagram3d" -> "vbars3D.svg"
      [] prefab = "scat" -> "scatterplot.svg"
      [] prefab = "lines" -> "lineplot.svg"

(* os.path.split(inputargs), inputargs being the last file named or "".    *)
InputArgs ==
    IF args = <<>> THEN [dirname |-> "", filename |-> ""]
    ELSE args[Len(args)]

(* path = os.path.join(str(dirname), name)                                 *)
OutputPath(prefab) ==
    [dirname |-> InputArgs.dirname, filename |-> OutputName(prefab)]

(* path == filename: the joined path is the bare file name of the input.   *)
PathIsFilename(prefab) ==
    /\ InputArgs.dirname = ""
    /\ OutputName(prefab) = InputArgs.filename

(* "for inputargs in args" with no file named: nothing is read and lval    *)
(* stays unbound.                                                          *)
NoInput ==
    /\ pc = "read"
    /\ args = <<>>
    /\ pc' = "read_done"
    /\ UNCHANGED <<lval, raised, readVars, NotRead>>

(* getprocessargs after the files are read: an unknown chart name raises   *)
(* ValueError, an output path equal to the input file name or an unbound   *)
(* lval raises UnboundLocalError; all three print the usage and call       *)
(* sys.exit(2). Otherwise the chart is constructed.                        *)
Dispatch ==
    /\ pc = "read_done"
    /\ status = "running"
    /\ IF opts.prefab \notin Prefabs
       THEN Exit("ValueError", "exit2")
       ELSE IF PathIsFilename(opts.prefab) \/ args = <<>>
       THEN Exit("UnboundLocalError", "exit2")
       ELSE pc' = "construct" /\ UNCHANGED <<raised, status>>
    /\ UNCHANGED <<axisVars, NotAxis>>

(* filetext.writesvgfile(path, begin + chartsvg + end), the last statement *)
(* of getprocessargs.                                                      *)
WriteSvgFile ==
    /\ pc = "composed"
    /\ written' = Append(written, OutputPath(opts.prefab))
    /\ status' = "exit0"
    /\ pc' = "done"
    /\ UNCHANGED <<opts, lval, raised, sortVars, fileok, cad, back, axisVars,
                   args, chartVars>>

(* The lines of the input files of a run: up to MaxBars lines of two or    *)
(* three tokens, a number, a number or a word, and possibly a number.      *)
RunLines ==
    {<<a, b>> : a \in {Num(0), Num(2)}, b \in {Num(0), Num(1), Word}}
    \cup
    {<<a, b, Num(1)>> : a \in {Num(0), Num(2)}, b \in {Num(0), Num(1), Word}}

(* .. and files of MaxRows lines of two numbers; the first file is empty.  *)
RunFiles ==
    UNION {[1..n -> RunLines] : n \in 0..MaxBars}
    \cup
    {[i \in 1..MaxRows |-> <<Num(x[i]), Num(i - 1)>>] :
       x \in [1..MaxRows -> 0..2]}

(* The names of the input file: in the working directory or in another    *)
(* one, named like the output of the 2-D bar chart or not.                 *)
InputNames ==
    {DataFile,
     [dirname |-> "", filename |-> "vbars2D.svg"],
     [dirname |-> "dir", filename |-> "vbars2D.svg"]}

(* The options of a run, chart by chart.                                   *)
RunOptions ==
    {[Defaults EXCEPT !.prefab = chart, !.ycolumn = yc, !.yrange = yr,
                      !.yinc = yi] :
       chart \in BarCharts, yc \in 2..3, yr \in 0..1, yi \in 0..1}
    \cup
    {[Defaults EXCEPT !.prefab = "scat", !.ycolumn = yc, !.yinc = yi,
                      !.corr = c] :
       yc \in 2..3, yi \in 0..1, c \in BOOLEAN}
    \cup
    {[Defaults EXCEPT !.prefab = "lines", !.ycolumn = yc, !.yinc = yi] :
       yc \in 2..3, yi \in 0..1}
    \cup
    {[Defaults EXCEPT !.prefab = "pie", !.colorfld = cf] : cf \in 2..3}
    \cup
    {[Defaults EXCEPT !.prefab = chart] : chart \in {"", "piechart"}}

InitRun ==
    /\ pc = "read"
    /\ opts \in RunOptions
    /\ \/ args = <<>> /\ fileok = FALSE /\ cad = <<>>
       \/ \E name \in InputNames :
              /\ args = <<name>>
              /\ \/ fileok = FALSE /\ cad = <<>>
                 \/ fileok = TRUE /\ cad \in RunFiles
    /\ written = <<>>
    /\ lval = <<>>
    /\ raised = ""
    /\ status = "running"
    /\ back = <<>>
    /\ input = <<>>
    /\ lpoints = <<>>
    /\ stack = <<>>
    /\ IdleAxis
    /\ IdleChart

NextRun ==
    \/ NoInput \/ ReadInputFile \/ Dispatch
    \/ BarConstruct \/ Bar3dConstruct \/ BarAxisStart
    \/ BarTick \/ Bar3dTick \/ BarTicksDone
    \/ BarDraw \/ Bar3dDraw
    \/ PieConstruct \/ PiePrint \/ PieSector \/ PieDone
    \/ PointConstruct
    \/ ScatAxisStart \/ ScatYTick \/ ScatYTicksDone
    \/ ScatXTick \/ ScatXTicksDone \/ ScatPoints
    \/ LineAxisStart \/ LineYTick \/ LineYTicksDone
    \/ LineXTick \/ LineXTicksDone
    \/ LineTransform \/ LineSortCall \/ SortStep \/ LineClose
    \/ LinePoints \/ LineIndexError
    \/ WriteSvgFile

SpecRun == InitRun /\ [][NextRun]_vars

(* The input file cannot be opened.                                        *)
Unreadable == args # <<>> /\ ~fileok

(* Two lines of the input file differ in their number of tokens.           *)
MalformedRows == args # <<>> /\ fileok /\ Ragged(cad)

(* The chart name is none getprocessargs knows.                            *)
UnknownChart == opts.prefab \notin Prefabs

(* The columns a chart converts with int().                                *)
NumericColumns(tbl, o) ==
    CASE o.prefab = "bardiagram" ->
           {o.ycolumn} \cup (IF Len(tbl) = o.ycolumn2 THEN {o.ycolumn2} ELSE {})
      [] o.prefab = "bardiagram3d" -> {o.ycolumn}
      [] o.prefab = "pie" -> {o.values}
      [] o.prefab \in PointCharts -> {o.xcolumn, o.ycolumn}
      [] OTHER -> {}

(* A column the options select is not in the table.                        *)
ColumnMismatch(tbl, o) ==
    \/ \E c \in NumericColumns(tbl, o) : c > Len(tbl)
    \/ o.prefab \in BarCharts /\ o.xcolumn > Len(tbl)
    \/ o.prefab = "pie" /\ o.colorfld # Len(tbl)

(* A cell of a column read as numbers is not a number.                     *)
NonNumericCell(tbl, o) ==
    \E c \in NumericColumns(tbl, o) : c <= Len(tbl) /\ ~AllInt(tbl[c])

(* A value of the 3-D bar chart is below yrange.                           *)
RangeError(tbl, o) ==
    /\ o.prefab = "bardiagram3d"
    /\ o.ycolumn <= Len(tbl)
    /\ AllInt(tbl[o.ycolumn])
    /\ \E i \in 1..Len(tbl[o.ycolumn]) : IntOf(tbl[o.ycolumn][i]) < o.yrange

(* The regression line is asked for and the X values have variance 0.      *)
ZeroVariance(tbl, o) ==
    /\ o.prefab = "scat"
    /\ o.corr
    /\ o.xcolumn <= Len(tbl)
    /\ AllInt(tbl[o.xcolumn])
    /\ GetVariance(tbl[o.xcolumn]) = 0

(* The run meets one of the fatal errors.                                  *)
FatalError ==
    \/ Unreadable
    \/ MalformedRows
    \/ UnknownChart
    \/ /\ args # <<>> /\ fileok /\ cad # <<>> /\ ~Ragged(cad)
       /\ \/ ColumnMismatch(Transpose(cad), opts)
          \/ NonNumericCell(Transpose(cad), opts)
          \/ RangeError(Transpose(cad), opts)
          \/ ZeroVariance(Transpose(cad), opts)

(* C6: the output file is written at most once and only by a run that read *)
(* its input and composed the chart without error; a run with an           *)
(* unreadable file, malformed rows, a non-numeric cell, an unknown chart   *)
(* type, a column-count mismatch, a range error or zero variance never     *)
(* calls writesvgfile and never ends with status 0.                        *)
C6_NoPartialOutput ==
    /\ Len(written) <= 1
    /\ written # <<>> => (pc = "done" /\ raised = "")
    /\ FatalError => (written = <<>> /\ status # "exit0")

(* The largest value an axis shows.                                        *)
YAxisMax == IF opts.prefab \in BarCharts THEN heightmaxbar ELSE maxaxis[2]

XAxisMax == maxaxis[1]

(* The loop of the vertical, of the horizontal axis has been left.         *)
YLoopOver == pc \in {"bars", "composed", "exited", "xticks", "points"}

XLoopOver == pc = "points"

(* The value the loop would label after the labels in ticks.               *)
NextTick(ticks) ==
    IF opts.prefab \in BarCharts
    THEN opts.yrange + opts.yinc * Len(ticks)
    ELSE IF ticks = <<>> THEN opts.yinc ELSE opts.yinc * (Len(ticks) - 1)

(* The loop was cut off after MaxTicks iterations with its test true.      *)
CutOff ==
    /\ counter >= MaxTicks
    /\ \/ pc = "yticks" /\ inc <= YAxisMax
       \/ pc = "xticks" /\ inc <= XAxisMax

(* Iterations a loop from start up to top can make with a step of 1 or     *)
(* more, the scatter loop's repeated first label included.                 *)
MostTicks(start, top) == IF top < start THEN 0 ELSE top - start + 2

(* C7: with an increment above 0 the tick loops of the 2-D bar, 3-D bar,   *)
(* scatter and line charts stop after finitely many iterations, every      *)
(* label is at most the axis maximum, and the value after the last label   *)
(* is above the axis maximum.                                              *)
C7_TickLoopsTerminate ==
    opts.yinc > 0 =>
        /\ ~CutOff
        /\ Len(yticks) <= MostTicks(IF opts.prefab \in BarCharts
                                    THEN opts.yrange ELSE 0, YAxisMax)
        /\ Len(xticks) <= MostTicks(0, XAxisMax)
        /\ \A k \in 1..Len(yticks) : yticks[k] <= YAxisMax
        /\ \A k \in 1..Len(xticks) : xticks[k] <= XAxisMax
        /\ YLoopOver => NextTick(yticks) > YAxisMax
        /\ XLoopOver => NextTick(xticks) > XAxisMax

(* Both loops of a scatter chart have run and stopped.                     *)
C7_Witness ==
    /\ pc = "points"
    /\ opts.prefab = "scat"
    /\ opts.yinc > 0
    /\ Len(yticks) >= 3
    /\ Len(xticks) >= 2

(* C8: with an increment of 0 or less no chart enters a tick loop; the run *)
(* has ended with an error once the chart is past its construction.        *)
C8_IncrementRejected ==
    opts.yinc <= 0 =>
        /\ pc \notin {"yticks", "xticks"}
        /\ pc \notin {"construct", "printsvg"} => status # "running"

(* C9: the labels of the 2-D and 3-D bar charts are yrange + yinc * k for  *)
(* k = 0, 1, 2, .. in this order, one label per k, each at most            *)
(* heightmaxbar, the value after the last label being above heightmaxbar;  *)
(* the Seats data with yrange 0 and yinc 20 give the 19 labels 0 .. 360.   *)
C9_BarTicks ==
    opts.prefab \in BarCharts =>
        /\ \A k \in 1..Len(yticks) :
             /\ yticks[k] = opts.yrange + opts.yinc * (k - 1)
             /\ yticks[k] <= heightmaxbar
        /\ opts.yinc > 0 =>
             \A k \in 1..(Len(yticks) - 1) : yticks[k] < yticks[k + 1]
        /\ YLoopOver => opts.yrange + opts.yinc * Len(yticks) > heightmaxbar
        /\ (YLoopOver /\ lval = SeatsTable) =>
             yticks = [k \in 1..19 |-> 20 * (k - 1)]

(* The Seats chart has its 19 labels.                                      *)
C9_Witness ==
    /\ pc = "composed"
    /\ lval = SeatsTable
    /\ Len(yticks) = 19
    /\ yticks[19] = 360

(* The integer values of a column.                                         *)
ValuesOf(col) == {IntOf(col[i]) : i \in 1..Len(col)}

(* The values of the bars a chart draws.                                   *)
BarValues ==
    ValuesOf(PyGet(lval, opts.ycolumn - 1)) \cup
    (IF opts.prefab = "bardiagram" /\ SecondSet(lval, opts)
     THEN ValuesOf(PyGet(lval, opts.ycolumn2 - 1)) ELSE {})

(* C10: heightmaxbar is the largest Y value, the largest of the Y and Y2   *)
(* values when the second bar set is drawn; every bar drawn has a value of *)
(* at most heightmaxbar and a top edge at or below yorigin.                *)
C10_HeightMaxBar ==
    (opts.prefab \in BarCharts /\ pc # "construct") =>
        /\ heightmaxbar \in BarValues
        /\ \A v \in BarValues : v <= heightmaxbar
        /\ \A k \in 1..Len(bars) :
             /\ bars[k].value <= heightmaxbar
             /\ bars[k].yoriginbar >= opts.yorigin

(* Two bar sets are drawn, the largest value being one of the second set.  *)
C10_Witness ==
    /\ pc = "composed"
    /\ opts.prefab = "bardiagram"
    /\ SecondSet(lval, opts)
    /\ Len(bars) = 4
    /\ \E k \in 1..Len(bars) :
         /\ bars[k].set = 2
         /\ \A j \in 1..Len(bars) :
              bars[j].set = 1 => bars[j].value < bars[k].value

(* The Y values of the chart, row by row.                                  *)
YValues ==
    [k \in 1..Len(PyGet(lval, opts.ycolumn - 1)) |->
       IntOf(PyGet(lval, opts.ycolumn - 1)[k])]

(* A Y value of the chart is below yrange.                                 *)
BelowRange ==
    \E k \in 1..Len(YValues) :
        YValues[k] < opts.yrange

---------------------------------------------------------------------------
(* The statistics of Scatterplot as functions of a table: getaverage of    *)
(* the X column, then getregressionline of the table.                      *)

(* The columns of n integer cells.                                         *)
RegColumns(n) == [1..n -> {Num(c) : c \in Coords}]

(* The Y columns tried with an X column: twice X, the row number, the      *)
(* opposite of X.                                                          *)
RegYColumns(X) ==
    {[i \in 1..Len(X) |-> Num(2 * IntOf(X[i]))],
     [i \in 1..Len(X) |-> Num(i - 1)],
     [i \in 1..Len(X) |-> Num(0 - IntOf(X[i]))]}

(* X = [1,2,3,4], Y = [2,4,6,8]                                            *)
SyntheticLine == <<[i \in 1..4 |-> Num(i)], [i \in 1..4 |-> Num(2 * i)]>>

RegTables ==
    {SyntheticLine} \cup
    UNION {{<<X, Y>> : Y \in RegYColumns(X)} :
             X \in UNION {RegColumns(n) : n \in 1..MaxRows}}

InitReg ==
    /\ pc = "reg_call"
    /\ opts = [Defaults EXCEPT !.prefab = "scat", !.corr = TRUE]
    /\ lval \in RegTables
    /\ raised = ""
    /\ input = <<>>
    /\ lpoints = <<>>
    /\ stack = <<>>
    /\ IdleRead
    /\ IdleAxis
    /\ IdleChart
    /\ IdleRun

(* getaverage(lval[xcolumn - 1])                                           *)
GetAverageCall ==
    /\ pc = "reg_call"
    /\ average' = GetAverage(PyGet(lval, opts.xcolumn - 1))
    /\ pc' = "reg_average"
    /\ UNCHANGED <<opts, lval, raised, sortVars, readVars, axisVars, runVars,
                   reglist, drawn, slices, initianradian>>

(* getregressionline(lval): the list of fitted points, or the exception    *)
(* of the division by a variance of 0.                                     *)
GetRegressionLineCall ==
    /\ pc = "reg_average"
    /\ IF RegressionRaises(lval, opts) = ""
       THEN reglist' = GetRegressionLine(lval, opts) /\ UNCHANGED raised
       ELSE raised' = RegressionRaises(lval, opts) /\ UNCHANGED reglist
    /\ pc' = "reg_returned"
    /\ UNCHANGED <<opts, lval, sortVars, readVars, axisVars, runVars,
                   average, drawn, slices, initianradian>>

NextReg == GetAverageCall \/ GetRegressionLineCall

SpecReg == InitReg /\ [][NextReg]_vars

(* The X and the Y column of the table of a regression.                    *)
RegX == PyGet(lval, opts.xcolumn - 1)
RegY == PyGet(lval, opts.ycolumn - 1)

(* C11: for X = [1,2,3,4] and Y = [2,4,6,8] getregressionline computes the *)
(* slope 2 and returns one fitted point per row whose y is the Y value of  *)
(* the row.                                                                *)
C11_FittedEqualsData ==
    (pc = "reg_returned" /\ lval = SyntheticLine) =>
        /\ raised = ""
        /\ FloatEq(Bcomponent(lval, opts), Float(2))
        /\ Len(reglist) = Len(RegX)
        /\ \A i \in 1..Len(reglist) :
               /\ FloatEq(reglist[i][1], Float(IntOf(RegX[i])))
               /\ FloatEq(reglist[i][2], Float(IntOf(RegY[i])))

(* All cells of the column are the same.                                   *)
AllSame(col) == \A i, j \in 1..Len(col) : col[i] = col[j]

(* C12: getregressionline fails with the division by zero exactly when all *)
(* X values are the same, and returns one fitted point per row otherwise.  *)
C12_ZeroDivisionIffConstantX ==
    pc = "reg_returned" =>
        /\ (raised = "ZeroDivisionError") <=> AllSame(RegX)
        /\ (GetVariance(RegX) = 0) <=> AllSame(RegX)
        /\ ~AllSame(RegX) => Len(reglist) = Len(RegX)

(* C13 as stated: getaverage returns sum(col)/count truncated toward zero. *)
C13_AverageTruncates ==
    pc # "reg_call" => average = TruncDiv(SumOf(RegX), Len(RegX))

(* C13: getaverage returns the largest integer that is at most             *)
(* sum(col)/count, so a negative quotient is rounded away from zero.       *)
C13_AverageFloors ==
    pc # "reg_call" =>
        /\ average * Len(RegX) <= SumOf(RegX)
        /\ SumOf(RegX) < (average + 1) * Len(RegX)

(* The average of a column whose sum is negative and no multiple of the    *)
(* number of cells has been returned.                                      *)
C13_Witness ==
    /\ pc = "reg_average"
    /\ SumOf(RegX) < 0
    /\ SumOf(RegX) % Len(RegX) # 0
    /\ average * Len(RegX) < SumOf(RegX)

---------------------------------------------------------------------------
(* Piechart: the sectors of a pie chart of a table of labels, values and   *)
(* colours.                                                                *)

(* The values columns of n cells.                                          *)
PieColumns(n) == [1..n -> {Num(v) : v \in 0..MaxValue}]

(* The values of the Seats example of the documentation of the program     *)
SeatsValues == <<Num(39), Num(200), Num(42), Num(15), Num(67), Num(276),
                 Num(27)>>

(* A table of a labels, a values and a colours column.                     *)
PieTable(col) ==
    <<[i \in 1..Len(col) |-> Word], col, [i \in 1..Len(col) |-> Word]>>

(* The tables of the pie charts: three columns, or the colours missing.    *)
PieTables ==
    LET cols == {SeatsValues} \cup UNION {PieColumns(n) : n \in 1..MaxRows}
    IN  {PieTable(col) : col \in cols} \cup
        {SubSeq(PieTable(col), 1, 2) : col \in cols}

InitPie ==
    /\ pc = "construct"
    /\ \E legend \in BOOLEAN, labels \in {1, 4} :
           opts = [Defaults EXCEPT !.prefab = "pie", !.legend = legend,
                                   !.labels = labels]
    /\ lval \in PieTables
    /\ raised = ""
    /\ input = <<>>
    /\ lpoints = <<>>
    /\ stack = <<>>
    /\ IdleRead
    /\ IdleAxis
    /\ IdleChart
    /\ IdleRun

NextPie == PieConstruct \/ PiePrint \/ PieSector \/ PieDone

SpecPie == InitPie /\ [][NextPie]_vars

(* The values column of the pie chart, and whether all its cells are      *)
(* positive integers.                                                      *)
PieValues == PyGet(lval, opts.values - 1)
PositiveValues ==
    /\ opts.prefab = "pie"
    /\ PyHas(lval, opts.values - 1)
    /\ \A i \in 1..Len(PieValues) :
           IsInt(PieValues[i]) /\ IntOf(PieValues[i]) > 0

(* The values of the sectors drawn so far.                                 *)
SliceValues == [i \in 1..Len(slices) |-> Num(slices[i].value)]

(* The angle at the middle of a sector.                                    *)
MidRadian(sl) == FloatAdd(sl.initianradian, FloatHalf(sl.radian))

C15_SectorsContiguous ==
    PositiveValues =>
        /\ \A i \in 1..Len(slices) :
               /\ slices[i].pos = i - 1
               /\ slices[i].value = IntOf(PieValues[i])
               /\ FloatEq(slices[i].finalradian,
                          FloatAdd(slices[i].initianradian, slices[i].radian))
               /\ FloatLess(slices[i].initianradian, slices[i].finalradian)
        /\ slices # <<>> => FloatEq(slices[1].initianradian, Float(0))
        /\ \A i \in 1..(Len(slices) - 1) :
               FloatEq(slices[i + 1].initianradian, slices[i].finalradian)
        /\ slices # <<>> =>
               FloatEq(initianradian, slices[Len(slices)].finalradian)

(* Three sectors have been drawn.                                          *)
C15_Witness ==
    /\ PositiveValues
    /\ Len(slices) = 3
    /\ slices[1].value # slices[3].value

(* C16: the large-arc-flag of a sector is 0 when its span is below pi and  *)
(* 1 otherwise, a span of exactly pi included.                             *)
C16_LargeArcFromHalf ==
    PositiveValues =>
        \A i \in 1..Len(slices) :
            slices[i].largearc = (IF FloatLess(slices[i].radian, Pi)
                                  THEN 0 ELSE 1)

(* C17 as stated: the label is at 1.4 radius exactly when the middle of    *)
(* the sector is in the closed interval from 3 pi / 4 to 5 pi / 4.         *)
C17_ClosedInterval ==
    PositiveValues =>
        \A i \in 1..Len(slices) :
            (slices[i].factor = 14) <=>
                /\ ~FloatLess(MidRadian(slices[i]), FloatDiv(3, 4))
                /\ ~FloatLess(FloatDiv(5, 4), MidRadian(slices[i]))

(* C17: the label is at 1.4 radius exactly when the middle of the sector   *)
(* is strictly between 3 pi / 4 and 5 pi / 4, and at 1.2 radius otherwise: *)
(* a middle of exactly 3 pi / 4 or 5 pi / 4 gives 1.2.                     *)
C17_OpenInterval ==
    PositiveValues =>
        \A i \in 1..Len(slices) :
            /\ slices[i].factor \in {12, 14}
            /\ (slices[i].factor = 14) <=>
                   /\ FloatLess(FloatDiv(3, 4), MidRadian(slices[i]))
                   /\ FloatLess(MidRadian(slices[i]), FloatDiv(5, 4))

(* A sector whose middle is exactly 5 pi / 4 has been drawn with its label *)
(* at 1.2 radius.                                                          *)
C17_Witness ==
    /\ PositiveValues
    /\ \E i \in 1..Len(slices) :
           /\ FloatEq(MidRadian(slices[i]), FloatDiv(5, 4))
           /\ slices[i].factor = 12

(* C18: the label of a sector, in tenths of a percent, is the tenth        *)
(* nearest to 100 value / sumvalues, with the sum the angle was computed   *)
(* from (100 value / sum is 50 times the span over pi); the values 39,     *)
(* 200, 42, 15, 67, 276, 27 have the sum 666 and the first label is 5.9.   *)
C18_PercentageLabel ==
    PositiveValues =>
        /\ \A i \in 1..Len(slices) :
               LET r == slices[i].radian
                   d == 2 * slices[i].sectorvalue * r.den - 1000 * r.num
               IN  /\ d <= r.den
                   /\ 0 - d <= r.den
                   /\ r.num * TotalSum(lval, opts) = 2 * slices[i].value * r.den
        /\ (PieValues = SeatsValues /\ slices # <<>>) =>
               /\ TotalSum(lval, opts) = 666
               /\ slices[1].sectorvalue = 59

(* The first sector of the chart of the values 39, 200, .. is drawn.       *)
C18_Witness ==
    /\ PositiveValues
    /\ PieValues = SeatsValues
    /\ Len(slices) = 7
    /\ slices[1].value = 39

---------------------------------------------------------------------------
(* Scatterplot: the points and the regression lines of a scatter chart of  *)
(* one or two data sets.                                                   *)

(* The X columns of n rows: values two apart, or all the same.             *)
ScatXColumns(n) == {[i \in 1..n |-> Num(2 * (i - 1))], [i \in 1..n |-> Num(1)]}

(* The Y columns of n rows.                                                *)
ScatYColumns(n) == [1..n -> {Num(c) : c \in Coords}]

(* The Y2 columns tried with a Y column: Y with the first value moved by   *)
(* -1, 0 or 1, and Y with every value one higher.                          *)
ScatY2Columns(Y) ==
    {[Y EXCEPT ![1] = Num(IntOf(Y[1]) + d)] : d \in {0 - 1, 0, 1}} \cup
    {[i \in 1..Len(Y) |-> Num(IntOf(Y[i]) + 1)]}

(* Tables X, Y of one data set and X, Y, X2, Y2 of two, and tables with a  *)
(* fifth column after them, its values two above those of Y2.              *)
ScatTables ==
    UNION {{<<X, Y>> : X \in ScatXColumns(n), Y \in ScatYColumns(n)} \cup
           UNION {{<<X, Y, X, Y2>> : Y2 \in ScatY2Columns(Y)} :
                    X \in ScatXColumns(n), Y \in ScatYColumns(n)} \cup
           {<<X, Y, X, Y, [i \in 1..n |-> Num(IntOf(Y[i]) + 2)]>> :
              X \in ScatXColumns(n), Y \in ScatYColumns(n)} :
             n \in 1..MaxBars}

InitScat ==
    /\ pc = "construct"
    /\ lval \in ScatTables
    /\ \E corr \in BOOLEAN :
           opts = [Defaults EXCEPT !.prefab = "scat", !.yinc = 1,
                                   !.corr = corr,
                                   !.ycolumn2 = IF Len(lval) > 4 THEN 4
                                                ELSE Defaults.ycolumn2]
    /\ raised = ""
    /\ input = <<>>
    /\ lpoints = <<>>
    /\ stack = <<>>
    /\ IdleRead
    /\ IdleAxis
    /\ IdleChart
    /\ IdleRun

NextScat ==
    \/ PointConstruct
    \/ ScatAxisStart \/ ScatYTick \/ ScatYTicksDone
    \/ ScatXTick \/ ScatXTicksDone \/ ScatPoints

SpecScat == InitScat /\ [][NextScat]_vars

(* C19: every element of a scatter chart, the points and the vertices of   *)
(* the regression lines of both data sets, is drawn at the canvas Y        *)
(* yorigin + ymaxaxis - y, so that a fitted value equal to a data value is *)
(* drawn at the Y of that data point.                                      *)
C19_OneFlip ==
    (pc = "composed" /\ opts.prefab = "scat") =>
        /\ \A k \in 1..Len(drawn) :
               FloatEq(drawn[k].ypoint,
                       FloatSub(Float(opts.yorigin + maxaxis[2]), drawn[k].y))
        /\ \A k, m \in 1..Len(drawn) :
               FloatEq(drawn[k].y, drawn[m].y) =>
                   FloatEq(drawn[k].ypoint, drawn[m].ypoint)

---------------------------------------------------------------------------
(* getprocessargs: the chart type, the order of the checks and the output  *)
(* path.                                                                   *)

(* The run has ended.                                                      *)
RunEnded == status # "running"

(* What the charts have drawn: bars, sectors, scatter points, the points   *)
(* of a line chart.                                                        *)
Composed ==
    [bars |-> bars # <<>>, slices |-> slices # <<>>, drawn |-> drawn # <<>>,
     lpoints |-> lpoints # <<>>]

(* What the chart named prefab alone draws.                                *)
LayoutOf(prefab) ==
    [bars |-> prefab \in BarCharts, slices |-> prefab = "pie",
     drawn |-> prefab = "scat", lpoints |-> prefab = "lines"]

(* C21: a run with a chart name that is none of the five ends with status  *)
(* 2 and no file written; a run with one of the five that writes a file    *)
(* has composed the chart of that name alone and written it once, to the   *)
(* chart's file name in the directory of the input file.                   *)
C21_ChartSelected ==
    /\ UnknownChart =>
           /\ written = <<>>
           /\ Composed = LayoutOf("")
           /\ RunEnded => status = "exit2"
    /\ (~UnknownChart /\ written # <<>>) =>
           /\ Composed = LayoutOf(opts.prefab)
           /\ written = <<[dirname |-> args[1].dirname,
                           filename |-> OutputName(opts.prefab)]>>

(* C22: with a chart name that is none of the five the input file is      *)
(* never read into a table, and the only error the run meets is the one of *)
(* the chart name, also when the file is missing or malformed.             *)
C22_ChartCheckedFirst ==
    UnknownChart =>
        /\ lval = <<>>
        /\ raised \in {"", "ValueError"}
        /\ RunEnded => raised = "ValueError"

(* The points of the second data set in the order they are drawn.          *)
IsSecondPoint(p) == p.set = 2 /\ p.kind = "point"
SecondPoints == SelectSeq(drawn, IsSecondPoint)

(* C23: in a scatter chart of a table with the columns --x2 and --y2 name  *)
(* the points of the second data set have their X from column --x2 and     *)
(* their Y from column --y2, row by row, and the axis maxima are the       *)
(* largest values of the X and X2, the Y and Y2 columns.                   *)
C23_SecondSetColumns ==
    (opts.prefab = "scat" /\ pc = "composed" /\
     Len(lval) >= opts.xcolumn2 /\ Len(lval) >= opts.ycolumn2) =>
        LET X2 == lval[opts.xcolumn2]
            Y2 == lval[opts.ycolumn2]
        IN  /\ Len(SecondPoints) = Len(X2)
            /\ \A k \in 1..Len(SecondPoints) :
                   /\ SecondPoints[k].x = Float(IntOf(X2[k]))
                   /\ SecondPoints[k].y = Float(IntOf(Y2[k]))
            /\ maxaxis[1] = GetMaxPoint(lval[opts.xcolumn] \o X2)
            /\ maxaxis[2] = GetMaxPoint(lval[opts.ycolumn] \o Y2)


(***************************************************************************)
(* The chart types the usage text offers for --prefab.                     *)
(***************************************************************************)
UsagePrefabs == {"bardiagram", "bardiagram3d", "piechart", "scat", "lines"}

(* C24: every chart type the usage text lists for --prefab is accepted:    *)
(* a run started with one of them is never rejected as an unknown chart    *)
(* type, and what it writes is that chart (piechart giving the pie chart). *)
C24_UsagePrefabsAccepted ==
    opts.prefab \in UsagePrefabs =>
        /\ raised # "ValueError"
        /\ written # <<>> =>
               Composed = LayoutOf(IF opts.prefab = "piechart" THEN "pie"
                                   ELSE opts.prefab)


(***************************************************************************)
(* The output path of the chart is the path of the input file: the same    *)
(* directory and the same file name.                                       *)
(***************************************************************************)
OutputIsInput ==
    /\ args # <<>>
    /\ opts.prefab \in Prefabs
    /\ OutputPath(opts.prefab) = InputArgs

(* C29: the input file is never overwritten. When the output path is the   *)
(* input path, in the working directory or in another one, writesvgfile is *)
(* not called: nothing is written and the run does not end normally.       *)
C29_InputNeverOverwritten ==
    OutputIsInput =>
        /\ written = <<>>
        /\ status # "exit0"


(***************************************************************************)
(* The labels 0, inc, 2 inc, ... up to top, in increasing order.           *)
(***************************************************************************)
FromZero(step, top) ==
    IF top < 0 THEN <<>>
    ELSE [k \in 1..(FloorDiv(top, step) + 1) |-> (k - 1) * step]

(* C26: in the scatter and line charts each axis is numbered from zero:    *)
(* with an increment above zero the labels of the Y axis, once its loop    *)
(* is over, are 0, inc, 2 inc, ... up to the axis maximum, each once and   *)
(* in increasing order, and so are those of the X axis.                    *)
C26_NumberedFromZero ==
    (opts.prefab \in {"scat", "lines"} /\ opts.yinc > 0) =>
        /\ pc \in {"xticks", "points"} =>
               yticks = FromZero(opts.yinc, maxaxis[2])
        /\ pc = "points" => xticks = FromZero(opts.yinc, maxaxis[1])


(***************************************************************************)
(* The lower end of the vertical axis line of the 2-D bar chart.           *)
(***************************************************************************)
Baseline == opts.yorigin + heightmaxbar - opts.yrange

(* C30: in the 2-D bar chart every bar drawn, of the Y values and of the   *)
(* Y2 values, stands on the baseline yorigin + heightmaxbar - yrange and   *)
(* has the height value - yrange, which is never negative.                 *)
C30_BarsOnBaseline ==
    opts.prefab = "bardiagram" =>
        \A k \in 1..Len(bars) :
            /\ bars[k].yoriginbar + bars[k].height = Baseline
            /\ bars[k].height = bars[k].value - opts.yrange
            /\ bars[k].height >= 0


(***************************************************************************)
(* ordenatewithquicksort: the partition, the ranges of the recursive calls *)
(* and the indices of the scans.                                           *)
(***************************************************************************)

(* int(lval[k][x]) of the list being sorted, k counted from 0.             *)
XAt(k) == Cell(lpoints, k, opts.xcolumn)

(* A call with first < last is running.                                    *)
InCall == pc = "sorting" /\ stack # <<>> /\ Top.first < Top.last

(* The call has just been entered: nothing scanned or exchanged yet.       *)
AtEntry ==
    /\ InCall
    /\ Top.at = "while"
    /\ Top.ivar = Top.first
    /\ Top.jvar = Top.last

(* The partition loop of the call has just been left.                      *)
LoopExited == InCall /\ Top.at = "left"

InRange(k) == Top.first <= k /\ k <= Top.last

(* C28: in every call on a non-empty list each read of lval[ivar] by the   *)
(* upward scan, each read of lval[jvar] by the downward scan and each      *)
(* exchange of the two happens with first <= ivar <= last and              *)
(* first <= jvar <= last; no scan leaves the range of the call and no      *)
(* IndexError is raised.                                                   *)
C28_ScansInRange ==
    /\ pc # "raised"
    /\ (pc = "sorting" /\ stack # <<>>) =>
           /\ Top.at = "scanup" => InRange(Top.ivar)
           /\ Top.at = "scandown" => InRange(Top.jvar)
           /\ (Top.at = "exchange" /\ Top.ivar <= Top.jvar) =>
                  InRange(Top.ivar) /\ InRange(Top.jvar)

(* In a recursive call on the upper part of a list that came sorted the    *)
(* downward scan has come down to the first element of the range of the    *)
(* call and reads it.                                                      *)
C28_Witness ==
    /\ pc = "sorting" /\ stack # <<>>
    /\ Len(stack) >= 2
    /\ Top.at = "scandown"
    /\ Top.first > 0
    /\ Top.jvar = Top.first
    /\ SortedByX(input)


(***************************************************************************)
(* The sort as a running program: a step that can be taken is taken.       *)
(***************************************************************************)
(* The scans and the tests read x values only: the lists of the fair runs  *)
(* are those whose y values are all different.                             *)
InitSortFair ==
    /\ InitSort
    /\ \A k \in 1..Len(input) : input[k][2] = k - 1

SpecSortFair == InitSortFair /\ [][NextSort]_vars /\ WF_vars(NextSort)

(* The range of a call.                                                    *)
RangeOf(f) == f.last - f.first

(* Call k of the stack was made by call k - 1 on [first, jvar], the caller *)
(* waiting at its second test, or on [ivar, last], the caller waiting at   *)
(* its return, and its range is shorter than the caller's.                 *)
CalledOnShorter(k) ==
    LET caller == stack[k - 1]
        callee == stack[k]
    IN  /\ \/ /\ caller.at = "right"
              /\ callee.first = caller.first
              /\ callee.last = caller.jvar
           \/ /\ caller.at = "return"
              /\ callee.first = caller.ivar
              /\ callee.last = caller.last
        /\ RangeOf(callee) < RangeOf(caller)

(* C27: called with first = 0 and last = len - 1 on a non-empty list,      *)
(* ordenatewithquicksort returns: every partition loop ends, and every     *)
(* recursive call is made on [first, jvar] or [ivar, last] of its caller,  *)
(* a range strictly shorter than the caller's.                             *)
C27_SortTerminates ==
    /\ <>(pc = "sorted")
    /\ [](\A k \in 2..Len(stack) : CalledOnShorter(k))

(* Three calls deep in the sort of a list of MaxLen points, the innermost  *)
(* call made on the upper part of its caller's range.                      *)
C27_Witness ==
    /\ pc = "sorting"
    /\ Len(input) = MaxLen
    /\ Len(stack) >= 3
    /\ stack[Len(stack) - 1].at = "return"
    /\ Top.first < Top.last

===========================================================================
